---- MODULE Spec2Model ----
(***************************************************************************)
(* Voss-McCartney pink noise generator (src/lib.rs): the Noise and Pink    *)
(* structs, their operations, and the loop of tests::index_distribution.   *)
(*                                                                         *)
(* f32 values are held as integers in units of 2^-24.  rand's              *)
(* random::<f32>() returns a multiple of 2^-24 in [0, 1), so every value   *)
(* the program computes is an integer number of units; an f32 keeps 24     *)
(* significant bits, which F32Round applies after every arithmetic         *)
(* operation (round to nearest, ties to even).  The sample returned by     *)
(* update() is held in units of 2^-28 (see F32Div).                        *)
(***************************************************************************)
EXTENDS Integers, FiniteSets, Sequences, TLC

VARIABLES
    p,              \* the Pink instance under test
    q,              \* a second Pink instance, fed a different random stream
    panicked,       \* TRUE once an assert! has failed (the thread is dead)
    op,             \* the operation that produced this state
    before,         \* p.counter on entry to that operation
    index,          \* the index update() selected in that operation on p
    qindex,         \* the index update() selected in that operation on q
    sample,         \* the value update() returned, in units of 2^-28
    touched,        \* the Noise ids whose update() ran in that operation
    everRefreshed,  \* the Noise ids whose update() has run at least once
    calls,          \* number of update() calls made on p
    incs,           \* number of direct increment_counter() calls made on p
    count,          \* the count array of tests::index_distribution
    drawn,          \* the two values random returned in the last update() on p
    idle            \* per generator, the update() calls of the endless run
                    \* made since its last refresh

vars == <<p, q, panicked, op, before, index, qindex, sample, touched,
          everRefreshed, calls, incs, count, drawn, idle>>

(***************************************************************************)
(* Program constants and model bounds                                      *)
(***************************************************************************)
GENERATORS == 15

MaxCalls == 4       \* update() calls explored with the full set of draws
MaxIncs == 1        \* direct increment_counter() calls explored
MaxPairCalls == 4   \* lock-step update() calls on the pair p, q
Cycles == 2         \* full counter cycles explored with a fixed draw
DriftCalls == 4     \* update() calls with varied draws after one fixed cycle
MaxWrittenCalls == 2  \* update() calls after a direct write of the counter

(***************************************************************************)
(* f32 arithmetic on integers in units of 2^-24                            *)
(***************************************************************************)
Abs(x) == IF x < 0 THEN -x ELSE x

\* 1.0
One == 2^24

\* The spacing of f32 values around magnitude a: 1 below 2^24 units, then
\* doubling with every binade.
RECURSIVE Quantum(_)
Quantum(a) == IF a < 2^24 THEN 1 ELSE 2 * Quantum(a \div 2)

\* The f32 nearest to x, ties to the even significand.
F32Round(x) ==
    LET a  == Abs(x)
        qu == Quantum(a)
        lo == (a \div qu) * qu
        r  == a - lo
        m  == IF 2 * r < qu THEN lo
              ELSE IF 2 * r > qu THEN lo + qu
              ELSE IF (lo \div qu) % 2 = 0 THEN lo ELSE lo + qu
    IN  IF x < 0 THEN -m ELSE m

F32Add(a, b) == F32Round(a + b)
F32Sub(a, b) == F32Round(a - b)

\* a / d for an f32 a and d = generators + 1, the result in units of 2^-28.
\* With generators = 15 the divisor is 16.0, a power of two: the division
\* only changes the exponent and is exact.
F32Div(a, d) == F32Round((a \div d) * 16 + ((a % d) * 16) \div d)

\* The values random::<f32>() can return, in units of 2^-24: 0 .. 2^24 - 1.
\* Draws holds the least and the greatest, 0.5, and 0.5 -+ 3 * 2^-24.
Half == 2^23
Draws == {0, Half - 3, Half, Half + 3, 2^24 - 1}

\* Two different draws for the two random streams of the pair.
PairDraws == {0, 2^24 - 1}

\* The one draw of the long runs: 0.0, which maps to the value -1.0.
CycleDraws == {0}

\* Draws whose values lie 4, 8 and 12 units of 2^-23 above -1.0.
DriftDraws == {0, 4, 8, 12}

(***************************************************************************)
(* u32 helpers                                                             *)
(***************************************************************************)
RECURSIVE BitAnd(_, _)
BitAnd(a, b) ==
    IF a = 0 \/ b = 0 THEN 0
    ELSE (a % 2) * (b % 2) + 2 * BitAnd(a \div 2, b \div 2)

RECURSIVE TrailingZeros(_)
TrailingZeros(x) ==
    IF x = 0 THEN 32
    ELSE IF x % 2 = 1 THEN 0
    ELSE 1 + TrailingZeros(x \div 2)

(***************************************************************************)
(* struct Noise                                                            *)
(***************************************************************************)
NoiseNew == [value |-> 0]

\* Mutant: the draw is doubled but not shifted down by 1.0.
NoiseUpdateUnshifted(self, u) == [self EXCEPT !.value = F32Round(u * 2)]

\* self.value = (random::<f32>() * 2.0) - 1.0, u the value random returned
NoiseUpdate(self, u) == [self EXCEPT !.value = F32Sub(F32Round(u * 2), One)]

NoiseValue(self) == self.value

(***************************************************************************)
(* struct Pink                                                             *)
(***************************************************************************)
NoiseIdx == 0 .. GENERATORS - 1
White == GENERATORS          \* the id of the white Noise in touched
NoiseIds == NoiseIdx \cup {White}
NoIndex == GENERATORS + 1         \* index when update() selected none

\* Mutant: rollover computed as 2^GENERATORS.
PinkNewWideRollover ==
    [noise      |-> [i \in NoiseIdx |-> NoiseNew],
     white      |-> NoiseNew,
     pink       |-> 0,
     counter    |-> 1,
     generators |-> GENERATORS,
     rollover   |-> 2^GENERATORS]

PinkNew ==
    [noise      |-> [i \in NoiseIdx |-> NoiseNew],
     white      |-> NoiseNew,
     pink       |-> 0,
     counter    |-> 1,
     generators |-> GENERATORS,
     rollover   |-> 2^(GENERATORS - 1)]

\* Mutant: the upper bound is not asserted.
CounterAssertsLowerOnly(self) == self.counter > 0

\* assert!(self.counter > 0); assert!(self.counter <= self.rollover);
CounterAsserts(self) == self.counter > 0 /\ self.counter <= self.rollover

\* Mutant: counts the trailing one bits (a zero-based counter's schedule).
GetNoiseIndexOnes(self) == TrailingZeros(self.counter + 1)

\* Mutant: the index also depends on the last white value.
GetNoiseIndexByValue(self) ==
    IF NoiseValue(self.white) > 0 THEN 0 ELSE TrailingZeros(self.counter)

GetNoiseIndex(self) == TrailingZeros(self.counter)

\* Mutant: no wrap.
IncrementCounterNoWrap(self) == [self EXCEPT !.counter = self.counter + 1]

\* Mutant: masks with rollover instead of rollover - 1.
IncrementCounterMaskRollover(self) ==
    [self EXCEPT !.counter = BitAnd(self.counter, self.rollover) + 1]

\* Mutant: masks with rollover / 2 - 1, wrapping half a cycle early.
IncrementCounterHalfMask(self) ==
    [self EXCEPT !.counter = BitAnd(self.counter, (self.rollover \div 2) - 1) + 1]

IncrementCounter(self) ==
    [self EXCEPT !.counter = BitAnd(self.counter, self.rollover - 1) + 1]

\* The outcome of update() with the two values the random source returns:
\* the new struct, the returned sample, the selected index, and whether an
\* assertion failed (the struct then keeps what was written before it).
Panic(self, i) ==
    [self |-> self, ret |-> 0, index |-> i, panicked |-> TRUE]

PinkUpdate(self, u1, u2) ==
    IF ~CounterAsserts(self) THEN Panic(self, NoIndex)
    ELSE
    LET i == GetNoiseIndex(self) IN
    IF ~(i < self.generators) THEN Panic(self, i)
    ELSE
    LET p1 == F32Sub(self.pink, NoiseValue(self.noise[i]))
        n1 == NoiseUpdate(self.noise[i], u1)
        p2 == F32Add(p1, NoiseValue(n1))
        p3 == F32Sub(p2, NoiseValue(self.white))
        w1 == NoiseUpdate(self.white, u2)
        p4 == F32Add(p3, NoiseValue(w1))
        s1 == [self EXCEPT !.noise[i] = n1, !.white = w1, !.pink = p4]
    IN  IF ~CounterAsserts(s1) THEN Panic(s1, i)
        ELSE [self     |-> IncrementCounter(s1),
              ret      |-> F32Div(p4, self.generators + 1),
              index    |-> i,
              panicked |-> FALSE]

\* The current value of the Noise with id n.
ValueOf(self, n) ==
    IF n = White THEN NoiseValue(self.white) ELSE NoiseValue(self.noise[n])

\* The sum of all noise values plus white, in exact arithmetic.
RECURSIVE SumValues(_, _)
SumValues(self, n) ==
    IF n < 0 THEN 0 ELSE ValueOf(self, n) + SumValues(self, n - 1)

ExactSum(self) == SumValues(self, White)

(***************************************************************************)
(* Initial state: Pink::new()                                              *)
(***************************************************************************)
Init ==
    /\ p = PinkNew
    /\ q = PinkNew
    /\ panicked = FALSE
    /\ op = "new"
    /\ before = 1
    /\ index = NoIndex
    /\ qindex = NoIndex
    /\ sample = 0
    /\ touched = {}
    /\ everRefreshed = {}
    /\ calls = 0
    /\ incs = 0
    /\ count = [i \in NoiseIdx |-> 0]
    /\ drawn = <<>>
    /\ idle = [i \in NoiseIdx |-> 0]

(***************************************************************************)
(* Operations                                                              *)
(***************************************************************************)
\* The effect of p.update() on p and on the record of the operation, the
\* random source returning u1 and then u2.
UpdateP(u1, u2) ==
    /\ ~panicked
    /\ LET r == PinkUpdate(p, u1, u2)
           t == IF r.index \in NoiseIdx THEN {r.index, White} ELSE {}
       IN  /\ p' = r.self
           /\ panicked' = r.panicked
           /\ index' = r.index
           /\ sample' = IF r.panicked THEN sample ELSE r.ret
           /\ touched' = t
           /\ everRefreshed' = everRefreshed \cup t
    /\ op' = "update"
    /\ before' = p.counter
    /\ calls' = calls + 1
    /\ drawn' = <<u1, u2>>
    /\ UNCHANGED incs

\* p.update() alone.
Update(u1, u2) ==
    /\ UpdateP(u1, u2)
    /\ UNCHANGED <<q, qindex, count, idle>>

\* p.increment_counter() called directly, as the tests do.
CallIncrementCounter ==
    /\ ~panicked
    /\ incs < MaxIncs
    /\ IF CounterAsserts(p)
       THEN p' = IncrementCounter(p) /\ panicked' = FALSE
       ELSE p' = p /\ panicked' = TRUE
    /\ op' = "increment_counter"
    /\ before' = p.counter
    /\ touched' = {}
    /\ incs' = incs + 1
    /\ UNCHANGED <<q, qindex, index, sample, everRefreshed, calls, count,
                   drawn, idle>>

\* update() with any of the draws, for the first MaxCalls calls.
CallUpdate ==
    /\ calls < MaxCalls
    /\ \E u1 \in Draws, u2 \in Draws : Update(u1, u2)

Next == CallUpdate \/ CallIncrementCounter

Spec == Init /\ [][Next]_vars

(***************************************************************************)
(* Long runs: full counter cycles with the random source fixed to one draw *)
(***************************************************************************)
CycleUpdate ==
    /\ calls < Cycles * p.rollover
    /\ \E u1 \in CycleDraws, u2 \in CycleDraws : Update(u1, u2)

NextCycle == CycleUpdate \/ CallIncrementCounter

SpecCycle == Init /\ [][NextCycle]_vars

(***************************************************************************)
(* tests::index_distribution: one iteration of `for _i in 0..p.rollover`   *)
(***************************************************************************)
IndexDistributionStep ==
    /\ calls < p.rollover
    /\ CounterAsserts(p)
    /\ GetNoiseIndex(p) \in NoiseIdx
    /\ count' = [count EXCEPT ![GetNoiseIndex(p)] = @ + 1]
    /\ \E u1 \in CycleDraws, u2 \in CycleDraws : UpdateP(u1, u2)
    /\ UNCHANGED <<q, qindex, idle>>

SpecIndexDistribution == Init /\ [][IndexDistributionStep]_vars

(***************************************************************************)
(* One fixed cycle, then DriftCalls calls with varied draws                *)
(***************************************************************************)
WarmUpdate ==
    /\ calls < p.rollover
    /\ \E u1 \in CycleDraws, u2 \in CycleDraws : Update(u1, u2)

DriftUpdate ==
    /\ calls >= p.rollover
    /\ calls < p.rollover + DriftCalls
    /\ \E u1 \in DriftDraws, u2 \in DriftDraws : Update(u1, u2)

NextDrift == WarmUpdate \/ DriftUpdate

SpecDrift == Init /\ [][NextDrift]_vars

(***************************************************************************)
(* Two instances updated in lock step from different random streams        *)
(***************************************************************************)
PairUpdate ==
    /\ calls < MaxPairCalls
    /\ \E u1 \in PairDraws, u2 \in PairDraws, v1 \in PairDraws, v2 \in PairDraws :
          /\ UpdateP(u1, u2)
          /\ LET r == PinkUpdate(q, v1, v2)
             IN  q' = r.self /\ qindex' = r.index
    /\ UNCHANGED <<count, idle>>

SpecPair == Init /\ [][PairUpdate]_vars

(***************************************************************************)
(* The operations entered with any counter value, valid or not: the tests  *)
(* write p.counter directly before calling them                            *)
(***************************************************************************)
\* The counter values written: around 0, around rollover and beyond.
WrittenCounters ==
    {0, 1, 2, 2^(GENERATORS - 1) - 1, 2^(GENERATORS - 1),
     2^(GENERATORS - 1) + 1, 2^GENERATORS, 2^GENERATORS + 1}

\* let mut p = Pink::new(); p.counter = c;
InitWritten ==
    /\ \E c \in WrittenCounters : p = [PinkNew EXCEPT !.counter = c]
    /\ q = PinkNew
    /\ panicked = FALSE
    /\ op = "new"
    /\ before = p.counter
    /\ index = NoIndex
    /\ qindex = NoIndex
    /\ sample = 0
    /\ touched = {}
    /\ everRefreshed = {}
    /\ calls = 0
    /\ incs = 0
    /\ count = [i \in NoiseIdx |-> 0]
    /\ drawn = <<>>
    /\ idle = [i \in NoiseIdx |-> 0]

\* p.get_noise_index() called directly, as the tests do.
CallGetNoiseIndex ==
    /\ ~panicked
    /\ IF CounterAsserts(p)
       THEN index' = GetNoiseIndex(p) /\ panicked' = FALSE
       ELSE index' = index /\ panicked' = TRUE
    /\ op' = "get_noise_index"
    /\ before' = p.counter
    /\ touched' = {}
    /\ UNCHANGED <<p, q, qindex, sample, everRefreshed, calls, incs, count,
                   drawn, idle>>

\* update() on the written struct, for the first MaxWrittenCalls calls.
WrittenUpdate ==
    /\ calls < MaxWrittenCalls
    /\ \E u1 \in PairDraws, u2 \in PairDraws : Update(u1, u2)

NextWritten == WrittenUpdate \/ CallIncrementCounter \/ CallGetNoiseIndex

SpecWritten == InitWritten /\ [][NextWritten]_vars

(***************************************************************************)
(* The endless run: update() called again and again with the fixed draw.   *)
(* calls is not counted here; idle counts, per generator, the calls made   *)
(* since its last refresh, and stops counting at rollover.                 *)
(***************************************************************************)
EndlessUpdate ==
    /\ \E u1 \in CycleDraws, u2 \in CycleDraws :
          /\ ~panicked
          /\ LET r == PinkUpdate(p, u1, u2)
                 t == IF r.index \in NoiseIdx THEN {r.index, White} ELSE {}
             IN  /\ p' = r.self
                 /\ panicked' = r.panicked
                 /\ index' = r.index
                 /\ sample' = IF r.panicked THEN sample ELSE r.ret
                 /\ touched' = t
                 /\ everRefreshed' = everRefreshed \cup t
                 /\ idle' = [k \in NoiseIdx |->
                               IF k \in t THEN 0
                               ELSE IF idle[k] < p.rollover THEN idle[k] + 1
                               ELSE idle[k]]
          /\ drawn' = <<u1, u2>>
    /\ op' = "update"
    /\ before' = p.counter
    /\ UNCHANGED <<q, qindex, calls, incs, count>>

\* The caller never stops calling update(): update() steps occur again and
\* again.  EndlessUpdate is enabled in every state that has not aborted, so
\* this is what weak fairness of EndlessUpdate amounts to.
SpecEndless == Init /\ [][EndlessUpdate]_vars /\ []<><<EndlessUpdate>>_vars

(***************************************************************************)
(* The refresh schedule                                                    *)
(***************************************************************************)
\* The number of update() calls between two refreshes of generator k: the
\* counter values in 1 .. rollover with k trailing zeros lie 2^(k+1) apart,
\* and the one value with generators - 1 trailing zeros is rollover itself.
Period(self, k) == IF k < self.generators - 1 THEN 2^(k + 1) ELSE self.rollover

(***************************************************************************)
(* Properties                                                              *)
(***************************************************************************)

\* C1: in every state reached by update() and direct increment_counter()
\* calls, 1 <= counter <= rollover, and no assertion has failed.
CounterInRange ==
    /\ ~panicked
    /\ 1 <= p.counter
    /\ p.counter <= p.rollover

\* C1 witness: both operations have run and the counter has wrapped from
\* rollover back to 1.
CounterWrapped ==
    /\ calls > 0
    /\ incs > 0
    /\ before = p.rollover
    /\ p.counter = 1
    /\ ~panicked

\* C2: for every counter value in 1 .. rollover the selected index is below
\* generators, so update() never fails its index assertion and never reads
\* noise out of bounds.
IndexInBounds ==
    /\ CounterAsserts(p) => GetNoiseIndex(p) < p.generators
    /\ op = "update" => (~panicked /\ index \in DOMAIN p.noise)

\* C2 witness: update() entered with counter = rollover selected the last
\* generator.
LastIndexSelected ==
    /\ op = "update"
    /\ before = p.rollover
    /\ index = p.generators - 1
    /\ ~panicked

\* C3: after exactly rollover update() calls from the initial state, index
\* i < generators - 1 was selected rollover / 2^(i+1) times and index
\* generators - 1 once.
IndexDistribution ==
    calls = p.rollover =>
        /\ \A i \in 0 .. p.generators - 2 : count[i] = p.rollover \div 2^(i + 1)
        /\ count[p.generators - 1] = 1

\* C3 witness: the loop has run rollover times; index 0 was counted 8192
\* times and index 14 once.
IndexDistributionDone ==
    /\ calls = p.rollover
    /\ count[0] = 8192
    /\ count[14] = 1
    /\ ~panicked

\* C4: increment_counter takes c to c + 1 for 1 <= c < rollover and takes
\* rollover to 1, both when called directly and at the end of update().
IncrementWraps ==
    (op \in {"update", "increment_counter"} /\ ~panicked) =>
        p.counter = IF before < p.rollover THEN before + 1 ELSE 1

\* C4 witness: a direct increment_counter() call at counter = rollover.
DirectIncrementAtRollover ==
    /\ op = "increment_counter"
    /\ before = p.rollover
    /\ p.counter = 1

\* C5: two instances started with the same counter and fed different random
\* values hold the same counter and select the same index at every step.
IndexIndependentOfRandom ==
    /\ p.counter = q.counter
    /\ index = qindex

\* C5 witness: after two calls the instances hold different values and
\* have both selected index 1.
PairDiverged ==
    /\ calls = 2
    /\ index = 1
    /\ qindex = 1
    /\ p.white # q.white
    /\ p.noise[0] # q.noise[0]
    /\ p.noise[1] # q.noise[1]
    /\ p.pink # q.pink

\* C6: the running sum pink equals the exact sum of the current noise
\* values plus white.
PinkIsExactSum == p.pink = ExactSum(p)

\* C7: the value update() returns lies in [-1, 1] (2^28 units of 2^-28).
SampleInUnitInterval ==
    (op = "update" /\ incs = 0) => (-(2^28) <= sample /\ sample <= 2^28)

\* C8: get_noise_index with counter = 2^k returns k, for 0 <= k < generators.
PowerOfTwoIndex ==
    \A k \in 0 .. p.generators - 1 :
        /\ p.counter = 2^k => GetNoiseIndex(p) = k
        /\ (op = "update" /\ before = 2^k) => index = k

\* C8 witness: update() entered with counter = 16384 selected index 14.
PowerOfTwoSelected ==
    /\ op = "update"
    /\ before = 16384
    /\ index = 14

\* C9: a fresh Pink has counter 1, generators 15, rollover 16384 =
\* 2^(generators - 1), pink 0, white 0 and 15 noise values all 0.
FreshPink ==
    op = "new" =>
        /\ p.counter = 1
        /\ p.generators = 15
        /\ p.rollover = 16384
        /\ p.rollover = 2^(p.generators - 1)
        /\ p.pink = 0
        /\ NoiseValue(p.white) = 0
        /\ DOMAIN p.noise = 0 .. 14
        /\ \A i \in DOMAIN p.noise : NoiseValue(p.noise[i]) = 0

\* C9 witness: the state Pink::new() returned, nothing called yet.
JustConstructed ==
    /\ op = "new"
    /\ calls = 0
    /\ incs = 0
    /\ p.counter = 1
    /\ Cardinality(DOMAIN p.noise) = 15

\* C10: a Noise value is 0 until that Noise is first refreshed and in
\* [-1, 1) ever after, and it changes only in a step that called update()
\* on that Noise.
NoiseValueDiscipline ==
    /\ [](\A n \in NoiseIds :
            /\ n \notin everRefreshed => ValueOf(p, n) = 0
            /\ n \in everRefreshed => (-One <= ValueOf(p, n) /\ ValueOf(p, n) < One))
    /\ [][\A n \in NoiseIds :
            ValueOf(p, n)' # ValueOf(p, n) => n \in touched']_vars

\* C10 witness: generator 0 was refreshed to -1.0, the least value, white to
\* the greatest, and generator 2 still holds its initial 0.
NoiseRefreshedAndNot ==
    /\ 0 \in everRefreshed
    /\ 2 \notin everRefreshed
    /\ ValueOf(p, 0) = -One
    /\ ValueOf(p, White) = One - 2
    /\ ValueOf(p, 2) = 0

\* C11 as stated: from its first refresh at call 2^k on, generator k is
\* refreshed once every 2^k update() calls (generator 0 on every call).
RefreshedEveryTwoToK ==
    (op = "update" /\ incs = 0) =>
        \A k \in NoiseIdx :
            calls >= 2^k => (k \in touched <=> calls % 2^k = 0)

\* C11 amended: generator k < generators - 1 is refreshed once every
\* 2^(k+1) update() calls, at calls 2^k, 3 * 2^k, 5 * 2^k, ...; generator
\* generators - 1 once every rollover calls; white on every call.
RefreshedEveryPeriod ==
    (op = "update" /\ incs = 0) =>
        /\ White \in touched
        /\ \A k \in NoiseIdx :
               k \in touched <=> calls % Period(p, k) = 2^k % Period(p, k)

\* C11 witness: generator 13 is refreshed for the second time at call
\* 3 * 2^13, one full rollover after its first refresh.
SecondRefreshOfThirteen ==
    /\ op = "update"
    /\ incs = 0
    /\ calls = 3 * 2^13
    /\ touched = {13, White}

UpdateFrame ==
    [][(op' = "update" /\ calls' = calls + 1 /\ ~panicked') =>
          /\ touched' = {TrailingZeros(p.counter), White}
          /\ TrailingZeros(p.counter) \in DOMAIN p.noise
          /\ DOMAIN p'.noise = DOMAIN p.noise
          /\ \A i \in DOMAIN p.noise :
                 i # TrailingZeros(p.counter) => p'.noise[i] = p.noise[i]
          /\ p'.generators = p.generators
          /\ p'.rollover = p.rollover]_vars

\* C14 witness: the update() entered with counter = 8192 refreshed generator
\* 13 and white, while generator 14 still holds its initial value.
ThirteenRefreshedAlone ==
    /\ op = "update"
    /\ before = 8192
    /\ touched = {13, White}
    /\ NoiseValue(p.noise[13]) # 0
    /\ NoiseValue(p.noise[14]) = 0

\* C15: get_noise_index, increment_counter and update entered with
\* counter = 0 or counter > rollover fail their assertion: the struct is
\* left as it was, no index is computed and no sample is returned.
InvalidCounterAborts ==
    [][(~panicked /\ ~(1 <= p.counter /\ p.counter <= p.rollover)
            /\ op' \in {"update", "increment_counter", "get_noise_index"}) =>
          /\ panicked'
          /\ p' = p
          /\ sample' = sample
          /\ index' \in {index, NoIndex}
          /\ touched' = {}
          /\ everRefreshed' = everRefreshed]_vars

\* C15 witness: update() entered with counter = rollover + 1 has failed its
\* assertion with nothing written.
UpdateAbortedAboveRollover ==
    /\ panicked
    /\ op = "update"
    /\ p.counter = p.rollover + 1
    /\ p.pink = 0
    /\ NoiseValue(p.white) = 0
    /\ everRefreshed = {}

\* C16: after n update() calls from the initial state the counter is
\* (n mod rollover) + 1; it is back at 1 after rollover calls and not before.
CounterFollowsCalls ==
    incs = 0 =>
        /\ p.counter = (calls % p.rollover) + 1
        /\ (0 < calls /\ calls < p.rollover) => p.counter # 1
        /\ calls = p.rollover => p.counter = 1

\* C16 witness: the counter is back at 1 after exactly rollover calls.
CounterBackAtOne ==
    /\ incs = 0
    /\ calls = p.rollover
    /\ p.counter = 1
    /\ op = "update"

\* C18: from the initial state generator k is first refreshed by update()
\* call number 2^k and holds 0 until then, so fewer than generators + 1
\* values have been refreshed until call number rollover.
FirstRefreshAtTwoToK ==
    incs = 0 =>
        /\ \A k \in NoiseIdx :
               /\ k \in everRefreshed <=> calls >= 2^k
               /\ calls < 2^k => NoiseValue(p.noise[k]) = 0
               /\ calls = 2^k => k \in touched
        /\ calls < p.rollover => Cardinality(everRefreshed) < p.generators + 1
        /\ calls >= p.rollover => everRefreshed = NoiseIds

\* C18 witness: after rollover - 1 calls every generator but the last has
\* been refreshed, and the last still holds 0.
LastGeneratorPending ==
    /\ incs = 0
    /\ calls = p.rollover - 1
    /\ everRefreshed = NoiseIds \ {p.generators - 1}
    /\ NoiseValue(p.noise[p.generators - 1]) = 0
    /\ NoiseValue(p.noise[p.generators - 2]) # 0

\* C17: no generator goes rollover consecutive update() calls without a
\* refresh, and under endless update() calls every generator is refreshed
\* again and again.
EveryGeneratorRefreshed ==
    /\ [](\A k \in NoiseIdx : idle[k] < p.rollover)
    /\ \A k \in NoiseIdx : []<>(k \in touched)

\* C17 witness: the last generator has gone rollover - 1 calls without a
\* refresh, after having been refreshed once.
LastGeneratorLongestIdle ==
    /\ idle[GENERATORS - 1] = p.rollover - 1
    /\ GENERATORS - 1 \in everRefreshed
    /\ idle[0] <= 1

====
